---- MODULE Spec2Model ----
(***************************************************************************)
(* eventsourcing_sqlalchemy/datastore.py: the construction of              *)
(* SQLAlchemyDatastore, its registry of record classes                     *)
(* (define_record_class), transaction() and the Transaction context        *)
(* manager: the serialization lock, the session's life cycle, what is      *)
(* committed, and the translation of exceptions in __exit__.               *)
(***************************************************************************)
EXTENDS Naturals, FiniteSets, Sequences, TLC

\* Number of application threads that call transaction() concurrently.
NumThreads == 2

\* Number of rows the scoped work of all transactions writes in a run.
MaxWrites == 2

Threads == 1..NumThreads

\* One thread using the datastore, with every outcome of the environment.
MainThread == CHOOSE t \in Threads : \A u \in Threads : t <= u

VARIABLES
    kwargs,        \* the keyword arguments SQLAlchemyDatastore(**kwargs) is called with
    datastore,     \* the attributes of the SQLAlchemyDatastore object
    access_lock,   \* the datastore has a serialization Lock (self.access_lock is not None)
    locked,        \* state of that threading.Lock
    pc,            \* per thread: its position in `with datastore.transaction(commit) as session:`
    commit,        \* per thread: the commit argument of its transaction() call
    tx,            \* per thread: the attributes of its Transaction object
    session,       \* per thread: the state of the Session object session_cls() built
    exc_val,       \* per thread: the exception the scoped work raised (None if none)
    op,            \* per thread: the session operation the try block of __exit__ called
    op_err,        \* per thread: the exception that operation raised (None if none)
    pending,       \* per thread: the exception leaving the try/except part of __exit__
    surfaced,      \* per thread: the exception that reached the caller (None if none)
    releases,      \* per thread: the number of lock.release() calls of its __exit__
    writes,        \* the rows written by scoped work, in order: the commit flag of the
                   \* Transaction and whether the scoped work raised; a row's id is its index
    written,       \* per thread: the ids of the rows its scoped work wrote through the session
    observed,      \* per thread: the ids of the rows its scoped work read from the database
    db,            \* the ids of the rows that are durably committed
    record_classes,  \* SQLAlchemyDatastore.record_classes: table name -> (class, base class)
    metadata,      \* the table names that have a table in the declarative metadata
    num_classes,   \* the number of class objects type() has built
    rpc,           \* per thread: its position in a define_record_class call
    args,          \* per thread: the arguments of that call
    record_class,  \* per thread: the local variable record_class of that call
    raised,        \* per thread: the class of the exception the call raised ("None" if none)
    before,        \* per thread: record_classes as it was when the call began
    first,         \* table name -> id of the first class assigned to it (0 if none)
    acked          \* the ids of the rows written in a with statement (commit=True, scoped
                   \* work not raising) that completed without an error reaching the caller

\* The state of the database and of what was written to it.
dbvars == << writes, written, observed, db, acked >>

\* The construction of the datastore.
cfgvars == << kwargs, datastore >>

\* The lock and the threads' transactions.
txvars == << locked, pc, commit, tx, session, exc_val, op, op_err, pending, surfaced,
            releases >>

\* The registry of record classes and the threads' define_record_class calls.
regvars == << record_classes, metadata, num_classes, rpc, args, record_class, raised,
             before, first >>

vars == << cfgvars, regvars, access_lock, txvars, dbvars >>

\* What a define_record_class call leaves alone.
othervars == << cfgvars, access_lock, txvars, dbvars >>

(***************************************************************************)
(* SQLAlchemyDatastore.__init__, lines 32-90, as a function of its keyword *)
(* arguments and of the outcomes of the library calls it makes.  A url is  *)
(* a string; an engine is modelled by the url of the database it connects  *)
(* to, a supplied session_cls by the url its sessions are bound to.        *)
(***************************************************************************)

\* A key that is not in kwargs.
Absent == "absent"

MemoryUrls == {"sqlite:///:memory:", "sqlite:///file:db?mode=memory&uri=true"}

SqliteUrls == MemoryUrls \cup {"sqlite:///db.sqlite"}

Urls == SqliteUrls \cup {"postgresql://host/db"}

\* url.startswith("sqlite")
StartsWithSqlite(url) == url \in SqliteUrls

\* ":memory:" in url or "mode=memory" in url
NamesMemory(url) == url \in MemoryUrls

\* The database an engine connects to is an in-memory SQLite database.
IsInMemoryTarget(engine) == engine \in MemoryUrls

\* engine.dialect.name
DialectName(engine) == IF engine \in SqliteUrls THEN "sqlite" ELSE "postgresql"

\* The keyword arguments of a construction: a key is Absent or has a value ("" and
\* "None" are the falsy values a caller can pass for url and session_cls).
Configs ==
    [url : {Absent, ""} \cup Urls,
     session_cls : {Absent, "None"} \cup Urls,
     access_lock : {Absent, "Lock"},
     is_sqlite_in_memory_db : {Absent, "True"}]

\* kwargs.get(key) or None
GetOrNone(kw, key) == IF kw[key] \in {Absent, "", "None"} THEN "None" ELSE kw[key]

\* A datastore object before __init__ has run: created is the set of the objects the
\* constructor itself has built.
NewDatastore ==
    [stage |-> "new", error |-> "None", access_lock |-> "None",
     is_sqlite_in_memory_db |-> FALSE, engine |-> "None", session_cls |-> "None",
     poolclass |-> "None", check_same_thread |-> TRUE, is_sqlite_wal_mode |-> FALSE,
     stored_event_record_cls |-> "None", created |-> {}]

\* An exception of class err leaves __init__.
Fail(ds, err) == [ds EXCEPT !.stage = "failed", !.error = err]

\* Lines 33-35.
init_fields(ds, kw) ==
    [ds EXCEPT !.access_lock = GetOrNone(kw, "access_lock"),
               !.is_sqlite_in_memory_db = (GetOrNone(kw, "is_sqlite_in_memory_db") = "True")]

\* _init_session without the test of lines 43-46.
init_session_path_unchecked(kw) ==
    IF GetOrNone(kw, "url") # "None" THEN "url"
    ELSE IF GetOrNone(kw, "session_cls") # "None" THEN "session_cls"
    ELSE "return"

\* Lines 40-50: which way _init_session goes.
init_session_path(kw) ==
    IF GetOrNone(kw, "url") = "None" /\ GetOrNone(kw, "session_cls") = "None" THEN "raise"
    ELSE IF GetOrNone(kw, "url") # "None" THEN "url"
    ELSE IF GetOrNone(kw, "session_cls") # "None" THEN "session_cls"
    ELSE "return"

\* create_engine(echo=False, **kwargs), line 65: every key of kwargs but url is passed
\* on, and create_engine raises TypeError for a keyword it does not know; otherwise
\* its outcome is r.
create_engine(kw, r) ==
    IF \E key \in {"session_cls", "access_lock", "is_sqlite_in_memory_db"} : kw[key] # Absent
    THEN "TypeError"
    ELSE r

\* Lines 52-66.
init_session_with_url(ds, kw, r) ==
    LET ds1 == IF StartsWithSqlite(kw.url) /\ NamesMemory(kw.url)
               THEN [ds EXCEPT !.is_sqlite_in_memory_db = TRUE,
                               !.check_same_thread = FALSE,
                               !.poolclass = "StaticPool",
                               !.access_lock = "Lock",
                               !.created = @ \cup {"lock"}]
               ELSE ds
    IN  IF create_engine(kw, r) # "ok"
        THEN Fail(ds1, create_engine(kw, r))
        ELSE [ds1 EXCEPT !.engine = kw.url,
                         !.session_cls = "sessionmaker",
                         !.created = @ \cup {"engine", "session_cls"}]

\* Lines 68-70; r is the outcome of session_cls().get_bind().
init_session_with_session_cls(ds, kw, r) ==
    LET ds1 == [ds EXCEPT !.session_cls = "supplied"]
    IN  IF r # "ok" THEN Fail(ds1, r) ELSE [ds1 EXCEPT !.engine = kw.session_cls]

\* Lines 40-50.
init_session(ds, kw, r) ==
    CASE init_session_path(kw) = "raise" -> Fail(ds, "EnvironmentError")
      [] init_session_path(kw) = "url" -> init_session_with_url(ds, kw, r)
      [] init_session_path(kw) = "session_cls" -> init_session_with_session_cls(ds, kw, r)
      [] OTHER -> ds

\* Lines 72-81; r is the outcome of connecting and executing PRAGMA journal_mode=WAL
\* ("wal", another journal mode, or the class of the exception raised).  An
\* in-memory database answers "memory".
init_sqlite_wal_mode(ds, r) ==
    IF ds.engine = "None" THEN Fail(ds, "AttributeError")
    ELSE IF DialectName(ds.engine) # "sqlite" THEN ds
    ELSE IF ds.is_sqlite_in_memory_db THEN ds
    ELSE IF IsInMemoryTarget(ds.engine) THEN ds
    ELSE IF r \notin {"wal", "delete"} THEN Fail(ds, r)
    ELSE [ds EXCEPT !.is_sqlite_wal_mode = (r = "wal")]

\* Lines 83-90 (the three record classes are bound alike; no override is modelled).
init_record_cls(ds, kw) == [ds EXCEPT !.stored_event_record_cls = "StoredEventRecord"]

\* Lines 32-38: the datastore __init__ leaves, r_session and r_wal being the outcomes
\* of the library calls of _init_session and _init_sqlite_wal_mode.
init(kw, r_session, r_wal) ==
    LET ds1 == init_session(init_fields(NewDatastore, kw), kw, r_session)
        ds2 == IF ds1.stage = "failed" THEN ds1 ELSE init_sqlite_wal_mode(ds1, r_wal)
    IN  IF ds2.stage = "failed" THEN ds2
        ELSE [init_record_cls(ds2, kw) EXCEPT !.stage = "constructed"]

\* Outcomes of the library calls of __init__.
SessionInitOutcomes == {"ok", "sqlalchemy.exc.ArgumentError"}

WalOutcomes == {"wal", "delete", "sqlalchemy.exc.OperationalError"}

\* A configuration that gives only a url.
UrlOnly(url) ==
    [url |-> url, session_cls |-> Absent, access_lock |-> Absent,
     is_sqlite_in_memory_db |-> Absent]


(***************************************************************************)
(* Exceptions.  An exception value is its class, the class of args[0], and *)
(* its truth value (bool(e); False only for a class defining __bool__ or   *)
(* __len__).                                                               *)
(***************************************************************************)

\* The absence of an exception.
None == [cls |-> "None", arg0 |-> "None", truthy |-> FALSE]

\* The direct base class of each exception class.
Base ==
    [c \in {"Exception"} |-> "BaseException"] @@
    [c \in {"sqlalchemy.exc.SQLAlchemyError", "sqlite3.Error", "PersistenceError",
            "DomainError", "RuntimeError"} |-> "Exception"] @@
    [c \in {"sqlalchemy.exc.StatementError"} |-> "sqlalchemy.exc.SQLAlchemyError"] @@
    [c \in {"sqlalchemy.exc.DBAPIError"} |-> "sqlalchemy.exc.StatementError"] @@
    [c \in {"sqlalchemy.exc.InterfaceError", "sqlalchemy.exc.DatabaseError"}
        |-> "sqlalchemy.exc.DBAPIError"] @@
    [c \in {"sqlalchemy.exc.DataError", "sqlalchemy.exc.OperationalError",
            "sqlalchemy.exc.IntegrityError", "sqlalchemy.exc.InternalError",
            "sqlalchemy.exc.ProgrammingError", "sqlalchemy.exc.NotSupportedError"}
        |-> "sqlalchemy.exc.DatabaseError"] @@
    [c \in {"sqlite3.DatabaseError"} |-> "sqlite3.Error"] @@
    [c \in {"sqlite3.OperationalError", "sqlite3.IntegrityError"}
        |-> "sqlite3.DatabaseError"] @@
    [c \in {"InterfaceError", "DatabaseError"} |-> "PersistenceError"] @@
    [c \in {"DataError", "OperationalError", "IntegrityError", "InternalError",
            "ProgrammingError", "NotSupportedError"} |-> "DatabaseError"]

RECURSIVE IsSubclass(_, _)
IsSubclass(c, k) ==
    IF c = k THEN TRUE
    ELSE IF c \in DOMAIN Base THEN IsSubclass(Base[c], k)
    ELSE FALSE

\* isinstance(e, k)
IsInstance(e, k) == e # None /\ IsSubclass(e.cls, k)

\* The classes of sqlalchemy.exc that the session's operations raise.
SQLAlchemyClasses ==
    {"sqlalchemy.exc.InterfaceError", "sqlalchemy.exc.DataError",
     "sqlalchemy.exc.OperationalError", "sqlalchemy.exc.IntegrityError",
     "sqlalchemy.exc.InternalError", "sqlalchemy.exc.ProgrammingError",
     "sqlalchemy.exc.NotSupportedError", "sqlalchemy.exc.DatabaseError",
     "sqlalchemy.exc.DBAPIError", "sqlalchemy.exc.SQLAlchemyError"}

\* SQLAlchemy errors: args[0] is the message, or (what line 158 tests for) the
\* driver's sqlite3.OperationalError.
SQLAlchemyErrors ==
    {[cls |-> c, arg0 |-> "str", truthy |-> TRUE] : c \in SQLAlchemyClasses} \cup
    {[cls |-> "sqlalchemy.exc.OperationalError", arg0 |-> "sqlite3.OperationalError",
      truthy |-> TRUE]}

\* Raw errors of the sqlite3 driver.
DriverErrors ==
    {[cls |-> c, arg0 |-> "str", truthy |-> TRUE] :
        c \in {"sqlite3.OperationalError", "sqlite3.IntegrityError"}}

\* Errors of the application's own scoped work; the second has a false truth value.
DomainErrors ==
    {[cls |-> "DomainError", arg0 |-> "str", truthy |-> b] : b \in BOOLEAN}

\* An error that is neither a database error nor a domain error.
OtherErrors == {[cls |-> "RuntimeError", arg0 |-> "str", truthy |-> TRUE]}

NativeErrors == SQLAlchemyErrors \cup DriverErrors

(***************************************************************************)
(* The outcomes the environment (session factory, session, scoped work)    *)
(* can produce.  E.call: session_cls(), begin() and close(); E.op:         *)
(* rollback() and commit(); E.scope: the scoped work.  None is success.    *)
(***************************************************************************)
AllOutcomes ==
    [call  |-> {None} \cup NativeErrors \cup OtherErrors,
     op    |-> {None} \cup NativeErrors \cup OtherErrors,
     scope |-> {None} \cup DomainErrors \cup NativeErrors]

\* The outcomes used in the runs with several threads: success, a failure that is
\* raised on, and (for rollback and commit) a failure that __exit__ suppresses
\* under the lock.
PathOutcomes ==
    [call  |-> {None, [cls |-> "sqlalchemy.exc.OperationalError", arg0 |-> "str",
                       truthy |-> TRUE]},
     op    |-> {None,
                [cls |-> "sqlalchemy.exc.OperationalError", arg0 |-> "str",
                 truthy |-> TRUE],
                [cls |-> "sqlalchemy.exc.OperationalError",
                 arg0 |-> "sqlite3.OperationalError", truthy |-> TRUE]},
     scope |-> {None, [cls |-> "DomainError", arg0 |-> "str", truthy |-> TRUE]}]

\* The outcomes used in the runs that write rows: for rollback and commit, success,
\* a failure that is raised on, and the failures that __exit__ suppresses; for the
\* scoped work, success and a domain error of either truth value.
WriteOutcomes ==
    [call  |-> {None, [cls |-> "sqlalchemy.exc.OperationalError", arg0 |-> "str",
                       truthy |-> TRUE]},
     op    |-> {None,
                [cls |-> "sqlalchemy.exc.OperationalError", arg0 |-> "str",
                 truthy |-> TRUE],
                [cls |-> "sqlalchemy.exc.OperationalError",
                 arg0 |-> "sqlite3.OperationalError", truthy |-> TRUE],
                [cls |-> "sqlite3.OperationalError", arg0 |-> "str", truthy |-> TRUE]},
     scope |-> {None} \cup DomainErrors]

NoTransaction == [session |-> "None", commit |-> FALSE, lock |-> FALSE]

(***************************************************************************)
(* SQLAlchemyDatastore.define_record_class, lines 97-127.  A class object  *)
(* is a record whose id is its identity; a thread can be preempted between *)
(* the lookup in record_classes, the call of type() and the assignment to  *)
(* record_classes.                                                         *)
(***************************************************************************)

TableNames == {"stored_events", "snapshots"}

BaseClasses == {"StoredEventRecord", "SnapshotRecord"}

Names == {"StoredEvents", "CustomRecord"}

\* No class object, and no entry of record_classes.
NoClass == [id |-> 0, name |-> "None", table_name |-> "None", base_cls |-> "None"]

NoEntry == [record_class |-> NoClass, base_cls |-> "None"]

NoArgs == [name |-> "None", table_name |-> "None", base_cls |-> "None"]

InitRegistry ==
    /\ record_classes = [n \in TableNames |-> NoEntry]
    /\ metadata = {}
    /\ num_classes = 0
    /\ rpc = [t \in Threads |-> "idle"]
    /\ args = [t \in Threads |-> NoArgs]
    /\ record_class = [t \in Threads |-> NoClass]
    /\ raised = [t \in Threads |-> "None"]
    /\ before = [t \in Threads |-> [n \in TableNames |-> NoEntry]]
    /\ first = [n \in TableNames |-> 0]

\* The try block with every table name taken as unregistered.
lookup_always_missing(registry, table_name, base_cls) == "KeyError"

\* The try block without the comparison of the base classes.
lookup_unchecked(registry, table_name, base_cls) ==
    IF registry[table_name] = NoEntry THEN "KeyError" ELSE "found"

\* Lines 99-106: the outcome of the try block.
lookup(registry, table_name, base_cls) ==
    IF registry[table_name] = NoEntry THEN "KeyError"
    ELSE IF registry[table_name].base_cls # base_cls THEN "ValueError"
    ELSE "found"

\* The state of the threads and of the database before any transaction() call.
InitTransactions ==
    /\ locked = FALSE
    /\ pc = [t \in Threads |-> "idle"]
    /\ commit = [t \in Threads |-> FALSE]
    /\ tx = [t \in Threads |-> NoTransaction]
    /\ session = [t \in Threads |-> "none"]
    /\ exc_val = [t \in Threads |-> None]
    /\ op = [t \in Threads |-> "none"]
    /\ op_err = [t \in Threads |-> None]
    /\ pending = [t \in Threads |-> None]
    /\ surfaced = [t \in Threads |-> None]
    /\ releases = [t \in Threads |-> 0]
    /\ writes = << >>
    /\ written = [t \in Threads |-> {}]
    /\ observed = [t \in Threads |-> {}]
    /\ db = {}
    /\ acked = {}

\* A datastore constructed from a url alone, with a lock (in-memory SQLite) or without.
Init ==
    /\ kwargs \in {UrlOnly("sqlite:///:memory:"), UrlOnly("sqlite:///db.sqlite")}
    /\ datastore = init(kwargs, "ok", "wal")
    /\ access_lock = (datastore.access_lock # "None")
    /\ InitRegistry
    /\ InitTransactions

\* A datastore about to be constructed, for every configuration.
InitConstruct ==
    /\ kwargs \in Configs
    /\ datastore = NewDatastore
    /\ access_lock = FALSE
    /\ InitRegistry
    /\ InitTransactions

\* SQLAlchemyDatastore(**kwargs), lines 32-38.
Construct(r_session, r_wal) ==
    /\ datastore.stage = "new"
    /\ datastore' = init(kwargs, r_session, r_wal)
    /\ access_lock' = (datastore'.access_lock # "None")
    /\ UNCHANGED << kwargs, regvars, txvars, dbvars >>

NextConstruct ==
    \E r_session \in SessionInitOutcomes, r_wal \in WalOutcomes : Construct(r_session, r_wal)

SpecConstruct == InitConstruct /\ [][NextConstruct]_vars


\* A thread calls define_record_class(name, table_name, base_cls).
DefineCall(t, name, table_name, base_cls) ==
    /\ rpc[t] = "idle"
    /\ rpc' = [rpc EXCEPT ![t] = "try"]
    /\ args' = [args EXCEPT ![t] = [name |-> name, table_name |-> table_name,
                                    base_cls |-> base_cls]]
    /\ before' = [before EXCEPT ![t] = record_classes]
    /\ UNCHANGED << record_classes, metadata, num_classes, record_class, raised, first >>
    /\ UNCHANGED othervars

\* Lines 99-106 and, when the entry is found, line 127.
DefineTry(t) ==
    /\ rpc[t] = "try"
    /\ LET out == lookup(record_classes, args[t].table_name, args[t].base_cls)
       IN  /\ rpc' = [rpc EXCEPT ![t] = CASE out = "KeyError" -> "except"
                                          [] out = "ValueError" -> "raised"
                                          [] OTHER -> "returned"]
           /\ raised' = [raised EXCEPT ![t] = IF out = "ValueError" THEN out ELSE "None"]
           /\ record_class' =
                  [record_class EXCEPT
                      ![t] = IF out = "found"
                             THEN record_classes[args[t].table_name].record_class
                             ELSE NoClass]
    /\ UNCHANGED << record_classes, metadata, num_classes, args, before, first >>
    /\ UNCHANGED othervars

\* Lines 107-125: type(name, (base_cls,), {...}) builds a new class, whose table is
\* added to the metadata; ok is whether the declarative base accepts a table name
\* that is already in the metadata (it raises InvalidRequestError otherwise).
DefineType(t, ok) ==
    /\ rpc[t] = "except"
    /\ IF args[t].table_name \in metadata /\ ~ok
       THEN /\ rpc' = [rpc EXCEPT ![t] = "raised"]
            /\ raised' = [raised EXCEPT ![t] = "sqlalchemy.exc.InvalidRequestError"]
            /\ UNCHANGED << record_class, num_classes, metadata >>
       ELSE /\ rpc' = [rpc EXCEPT ![t] = "assign"]
            /\ num_classes' = num_classes + 1
            /\ record_class' =
                   [record_class EXCEPT
                       ![t] = [id |-> num_classes + 1, name |-> args[t].name,
                               table_name |-> args[t].table_name,
                               base_cls |-> args[t].base_cls]]
            /\ metadata' = metadata \cup {args[t].table_name}
            /\ UNCHANGED raised
    /\ UNCHANGED << record_classes, args, before, first >>
    /\ UNCHANGED othervars

\* Lines 126-127.
DefineAssign(t) ==
    /\ rpc[t] = "assign"
    /\ record_classes' =
           [record_classes EXCEPT
               ![args[t].table_name] = [record_class |-> record_class[t],
                                        base_cls |-> args[t].base_cls]]
    /\ first' = [first EXCEPT ![args[t].table_name] =
                                  IF @ = 0 THEN record_class[t].id ELSE @]
    /\ rpc' = [rpc EXCEPT ![t] = "returned"]
    /\ UNCHANGED << metadata, num_classes, args, record_class, raised, before >>
    /\ UNCHANGED othervars

\* The caller goes on after the call returned or raised.
DefineDone(t) ==
    /\ rpc[t] \in {"returned", "raised"}
    /\ rpc' = [rpc EXCEPT ![t] = "idle"]
    /\ args' = [args EXCEPT ![t] = NoArgs]
    /\ record_class' = [record_class EXCEPT ![t] = NoClass]
    /\ raised' = [raised EXCEPT ![t] = "None"]
    /\ before' = [before EXCEPT ![t] = [n \in TableNames |-> NoEntry]]
    /\ UNCHANGED << record_classes, metadata, num_classes, first >>
    /\ UNCHANGED othervars

\* define_record_class calls made one after the other.
NextRegistry ==
    \/ \E name \in Names, table_name \in TableNames, base_cls \in BaseClasses :
           DefineCall(MainThread, name, table_name, base_cls)
    \/ DefineTry(MainThread)
    \/ \E ok \in BOOLEAN : DefineType(MainThread, ok)
    \/ DefineAssign(MainThread)
    \/ DefineDone(MainThread)

SpecRegistry == Init /\ [][NextRegistry]_vars

\* define_record_class calls of several threads, all with the same base class.
NextRegistryThreads ==
    \E t \in Threads :
        \/ \E name \in Names, table_name \in TableNames :
               DefineCall(t, name, table_name, "StoredEventRecord")
        \/ DefineTry(t)
        \/ \E ok \in BOOLEAN : DefineType(t, ok)
        \/ DefineAssign(t)
        \/ DefineDone(t)

SpecRegistryThreads == Init /\ [][NextRegistryThreads]_vars

(***************************************************************************)
(* Transaction.__exit__, lines 140-173, as functions of the exception the  *)
(* scoped work raised (exc), the commit flag (c), the lock attribute       *)
(* (lock: self.lock is not None) and the outcome of the session operation  *)
(* that is called (r).                                                     *)
(***************************************************************************)

\* `if exc_val:` tests the truth value of the exception object.
Truthy(e) == e # None /\ e.truthy

\* SessionOp with the test of the commit flag dropped: commits whenever the scoped
\* work did not raise.
SessionOpCommitsAlways(exc, c) ==
    IF Truthy(exc) THEN "rollback" ELSE "commit"

\* The session operation the try block calls.
SessionOp(exc, c) ==
    IF Truthy(exc) THEN "rollback"
    ELSE IF ~c THEN "rollback"
    ELSE "commit"

\* The exception leaving the try block (lines 142-152), None if none does.
TryBlock(exc, c, lock, r) ==
    IF Truthy(exc)
    THEN IF r # None THEN r       \* session.rollback() raised
         ELSE exc                 \* raise exc_val
    ELSE IF ~c
    THEN IF r = None THEN None
         ELSE IF IsInstance(r, "sqlite3.OperationalError")
              THEN IF lock THEN None   \* if self.lock: pass
                   ELSE None           \* no else branch: the handler ends
              ELSE r
    ELSE r                        \* session.commit()

\* The except clauses of lines 153-173, in their order: the class caught and the
\* class of eventsourcing.persistence raised in its place.
ExceptClauses ==
    << [catch |-> "sqlalchemy.exc.InterfaceError",    raise |-> "InterfaceError"],
       [catch |-> "sqlalchemy.exc.DataError",         raise |-> "DataError"],
       [catch |-> "sqlalchemy.exc.OperationalError",  raise |-> "OperationalError"],
       [catch |-> "sqlalchemy.exc.IntegrityError",    raise |-> "IntegrityError"],
       [catch |-> "sqlalchemy.exc.InternalError",     raise |-> "InternalError"],
       [catch |-> "sqlalchemy.exc.ProgrammingError",  raise |-> "ProgrammingError"],
       [catch |-> "sqlalchemy.exc.NotSupportedError", raise |-> "NotSupportedError"],
       [catch |-> "sqlalchemy.exc.DatabaseError",     raise |-> "DatabaseError"],
       [catch |-> "sqlalchemy.exc.SQLAlchemyError",   raise |-> "PersistenceError"] >>

\* The exception leaving the try/except statement when e leaves the try block:
\* the first clause that matches e handles it, and no clause handles what a
\* handler raises.
Handler(e, lock) ==
    LET matching == {i \in DOMAIN ExceptClauses : IsInstance(e, ExceptClauses[i].catch)}
    IN  IF e = None \/ matching = {} THEN e
        ELSE LET i == CHOOSE j \in matching : \A k \in matching : j <= k
                 clause == ExceptClauses[i]
             IN  IF /\ clause.catch = "sqlalchemy.exc.OperationalError"
                    /\ IsSubclass(e.arg0, "sqlite3.OperationalError")
                    /\ lock
                 THEN None
                 ELSE [cls |-> clause.raise, arg0 |-> e.cls, truthy |-> TRUE]

\* What the with statement raises to the caller once __exit__ has run its finally
\* block: the exception leaving __exit__, or else (when __exit__ returns None) the
\* exception of the scoped work.
Propagated(exc, out) == IF out # None THEN out ELSE exc

(***************************************************************************)
(* The steps of `with datastore.transaction(commit) as session: ...` in    *)
(* thread t.  E gives the outcomes of the environment.                     *)
(***************************************************************************)

\* The thread calls datastore.transaction(c), line 92.
TransactionCall(t, c) ==
    /\ pc[t] = "idle"
    /\ pc' = [pc EXCEPT ![t] = "calling"]
    /\ commit' = [commit EXCEPT ![t] = c]
    /\ UNCHANGED << cfgvars, regvars, access_lock, locked, tx, session, exc_val, op, op_err, pending,
                    surfaced, releases, dbvars >>

\* The two with statements of one thread that nests transaction() calls.
Outer == MainThread

Inner == CHOOSE t \in Threads : t # Outer

\* access_lock as a reentrant lock (threading.RLock): the thread that holds the lock
\* acquires it again without waiting.
TransactionAcquireReentrant(t) ==
    /\ pc[t] = "calling"
    /\ access_lock => (~locked \/ (t = Inner /\ tx[Outer].lock))
    /\ pc' = [pc EXCEPT ![t] = "acquired"]
    /\ locked' = access_lock
    /\ UNCHANGED << cfgvars, regvars, access_lock, commit, tx, session, exc_val, op, op_err,
                    pending, surfaced, releases, dbvars >>

\* TransactionAcquire without blocking: the call goes on although the lock is held.
TransactionAcquireNoWait(t) ==
    /\ pc[t] = "calling"
    /\ locked' = (locked \/ access_lock)
    /\ pc' = [pc EXCEPT ![t] = "acquired"]
    /\ UNCHANGED << cfgvars, regvars, access_lock, commit, tx, session, exc_val, op, op_err, pending,
                    surfaced, releases, dbvars >>

\* transaction(), lines 93-94: block until the lock is acquired.
TransactionAcquire(t) ==
    /\ pc[t] = "calling"
    /\ IF access_lock
       THEN /\ ~locked
            /\ locked' = TRUE
       ELSE UNCHANGED locked
    /\ pc' = [pc EXCEPT ![t] = "acquired"]
    /\ UNCHANGED << cfgvars, regvars, access_lock, commit, tx, session, exc_val, op, op_err, pending,
                    surfaced, releases, dbvars >>

\* transaction(), line 95: self.session_cls() returns a session or raises r.
TransactionCreate(t, r) ==
    /\ pc[t] = "acquired"
    /\ IF r = None
       THEN /\ session' = [session EXCEPT ![t] = "new"]
            /\ tx' = [tx EXCEPT ![t] = [session |-> "Session", commit |-> commit[t],
                                        lock |-> access_lock]]
            /\ pc' = [pc EXCEPT ![t] = "created"]
            /\ UNCHANGED surfaced
       ELSE /\ pc' = [pc EXCEPT ![t] = "transaction_raised"]
            /\ surfaced' = [surfaced EXCEPT ![t] = r]
            /\ UNCHANGED << session, tx >>
    /\ UNCHANGED << cfgvars, regvars, access_lock, locked, commit, exc_val, op, op_err, pending,
                    releases, dbvars >>

\* __enter__: self.session.begin() returns or raises r; when it raises, the with
\* statement does not call __exit__.
Enter(t, r) ==
    /\ pc[t] = "created"
    /\ IF r = None
       THEN /\ session' = [session EXCEPT ![t] = "begun"]
            /\ pc' = [pc EXCEPT ![t] = "scope"]
            /\ UNCHANGED surfaced
       ELSE /\ pc' = [pc EXCEPT ![t] = "enter_raised"]
            /\ surfaced' = [surfaced EXCEPT ![t] = r]
            /\ UNCHANGED session
    /\ UNCHANGED << cfgvars, regvars, access_lock, locked, commit, tx, exc_val, op, op_err, pending,
                    releases, dbvars >>

\* The caller's scoped work reads the committed rows through the session, writes
\* a row through it if w, and ends, normally (e = None) or by raising e; the with
\* statement then calls __exit__ with e.
ScopedWork(t, e, w) ==
    /\ pc[t] = "scope"
    /\ observed' = [observed EXCEPT ![t] = db]
    /\ IF w
       THEN /\ Len(writes) < MaxWrites
            /\ writes' = Append(writes, [commit |-> tx[t].commit, raised |-> e # None])
            /\ written' = [written EXCEPT ![t] = {Len(writes) + 1}]
       ELSE UNCHANGED << writes, written >>
    /\ exc_val' = [exc_val EXCEPT ![t] = e]
    /\ pc' = [pc EXCEPT ![t] = "exit_try"]
    /\ UNCHANGED << cfgvars, regvars, access_lock, locked, commit, tx, session, op, op_err, pending,
                    surfaced, releases, db, acked >>

\* __exit__, lines 141-173: the try statement; the session operation it calls
\* returns or raises r.
ExitTry(t, r) ==
    /\ pc[t] = "exit_try"
    /\ op' = [op EXCEPT ![t] = SessionOp(exc_val[t], tx[t].commit)]
    /\ op_err' = [op_err EXCEPT ![t] = r]
    /\ pending' = [pending EXCEPT ![t] =
           Handler(TryBlock(exc_val[t], tx[t].commit, tx[t].lock, r), tx[t].lock)]
    /\ \E took_effect \in IF SessionOp(exc_val[t], tx[t].commit) # "commit" THEN {FALSE}
                           ELSE IF r = None THEN {TRUE}
                           ELSE BOOLEAN :   \* a commit() that raises may have committed
           db' = IF took_effect THEN db \cup written[t] ELSE db
    /\ pc' = [pc EXCEPT ![t] = "exit_finally"]
    /\ UNCHANGED << cfgvars, regvars, access_lock, locked, commit, tx, session, exc_val, surfaced,
                    releases, writes, written, observed, acked >>

\* __exit__, lines 175-176: self.session.close() returns or raises r; when it
\* raises, r leaves __exit__ and the rest of the finally block is not run.
ExitClose(t, r) ==
    /\ pc[t] = "exit_finally"
    /\ IF r = None
       THEN /\ session' = [session EXCEPT ![t] = "closed"]
            /\ tx' = [tx EXCEPT ![t].session = "None"]
            /\ pc' = [pc EXCEPT ![t] = "exit_release"]
            /\ UNCHANGED surfaced
       ELSE /\ pc' = [pc EXCEPT ![t] = "exit_done"]
            /\ surfaced' = [surfaced EXCEPT ![t] = r]
            /\ UNCHANGED << session, tx >>
    /\ UNCHANGED << cfgvars, regvars, access_lock, locked, commit, exc_val, op, op_err, pending,
                    releases, dbvars >>

\* __exit__, lines 177-178: release the lock if the Transaction has one (releasing
\* an unlocked Lock raises RuntimeError); then __exit__ ends.
ExitRelease(t) ==
    LET out == IF tx[t].lock /\ ~locked
               THEN [cls |-> "RuntimeError", arg0 |-> "str", truthy |-> TRUE]
               ELSE Propagated(exc_val[t], pending[t])
    IN  /\ pc[t] = "exit_release"
        /\ IF tx[t].lock /\ locked
           THEN /\ locked' = FALSE
                /\ releases' = [releases EXCEPT ![t] = @ + 1]
           ELSE UNCHANGED << locked, releases >>
        /\ surfaced' = [surfaced EXCEPT ![t] = out]
        /\ acked' = IF tx[t].commit /\ exc_val[t] = None /\ out = None
                    THEN acked \cup written[t]
                    ELSE acked
        /\ pc' = [pc EXCEPT ![t] = "exit_done"]
        /\ UNCHANGED << cfgvars, regvars, access_lock, commit, tx, session, exc_val, op, op_err, pending,
                        writes, written, observed, db >>

\* The thread is done with the with statement (it completed or raised) and drops
\* the Transaction; it may call transaction() again.
Continue(t) ==
    /\ pc[t] \in {"transaction_raised", "enter_raised", "exit_done"}
    /\ pc' = [pc EXCEPT ![t] = "idle"]
    /\ commit' = [commit EXCEPT ![t] = FALSE]
    /\ tx' = [tx EXCEPT ![t] = NoTransaction]
    /\ session' = [session EXCEPT ![t] = "none"]
    /\ exc_val' = [exc_val EXCEPT ![t] = None]
    /\ op' = [op EXCEPT ![t] = "none"]
    /\ op_err' = [op_err EXCEPT ![t] = None]
    /\ pending' = [pending EXCEPT ![t] = None]
    /\ surfaced' = [surfaced EXCEPT ![t] = None]
    /\ releases' = [releases EXCEPT ![t] = 0]
    /\ written' = [written EXCEPT ![t] = {}]
    /\ observed' = [observed EXCEPT ![t] = {}]
    /\ UNCHANGED << cfgvars, regvars, access_lock, locked, writes, db, acked >>

Next ==
    \/ \E c \in BOOLEAN : TransactionCall(MainThread, c)
    \/ TransactionAcquire(MainThread)
    \/ \E r \in AllOutcomes.call : TransactionCreate(MainThread, r)
    \/ \E r \in AllOutcomes.call : Enter(MainThread, r)
    \/ \E e \in AllOutcomes.scope : ScopedWork(MainThread, e, FALSE)
    \/ \E r \in AllOutcomes.op : ExitTry(MainThread, r)
    \/ \E r \in AllOutcomes.call : ExitClose(MainThread, r)
    \/ ExitRelease(MainThread)
    \/ Continue(MainThread)

Spec == Init /\ [][Next]_vars

\* One thread using the datastore, its scoped work writing rows.
NextWrites ==
    \/ \E c \in BOOLEAN : TransactionCall(MainThread, c)
    \/ TransactionAcquire(MainThread)
    \/ \E r \in WriteOutcomes.call : TransactionCreate(MainThread, r)
    \/ \E r \in WriteOutcomes.call : Enter(MainThread, r)
    \/ \E e \in WriteOutcomes.scope, w \in BOOLEAN : ScopedWork(MainThread, e, w)
    \/ \E r \in WriteOutcomes.op : ExitTry(MainThread, r)
    \/ \E r \in WriteOutcomes.call : ExitClose(MainThread, r)
    \/ ExitRelease(MainThread)
    \/ Continue(MainThread)

SpecWrites == Init /\ [][NextWrites]_vars

\* Several threads using the datastore concurrently.
NextThreads ==
    \E t \in Threads :
        \/ \E c \in BOOLEAN : TransactionCall(t, c)
        \/ TransactionAcquire(t)
        \/ \E r \in PathOutcomes.call : TransactionCreate(t, r)
        \/ \E r \in PathOutcomes.call : Enter(t, r)
        \/ \E e \in PathOutcomes.scope : ScopedWork(t, e, FALSE)
        \/ \E r \in PathOutcomes.op : ExitTry(t, r)
        \/ \E r \in PathOutcomes.call : ExitClose(t, r)
        \/ ExitRelease(t)
        \/ Continue(t)

SpecThreads == Init /\ [][NextThreads]_vars

(***************************************************************************)
(* One thread that calls transaction() again while it holds a Transaction  *)
(* that has not exited.  The two with statements of that thread are Outer  *)
(* and Inner: Inner runs only while Outer has its Transaction and has not  *)
(* left the scoped work, and Outer goes on only when Inner has ended.      *)
(***************************************************************************)

\* The thread holds the Transaction of Outer, which has not exited.
HoldsTransaction == pc[Outer] \in {"created", "scope"}

NextNested ==
    \/ /\ pc[Inner] = "idle"
       /\ \/ \E c \in BOOLEAN : TransactionCall(Outer, c)
          \/ TransactionAcquire(Outer)
          \/ \E r \in PathOutcomes.call : TransactionCreate(Outer, r)
          \/ \E r \in PathOutcomes.call : Enter(Outer, r)
          \/ \E e \in PathOutcomes.scope : ScopedWork(Outer, e, FALSE)
          \/ \E r \in PathOutcomes.op : ExitTry(Outer, r)
          \/ \E r \in PathOutcomes.call : ExitClose(Outer, r)
          \/ ExitRelease(Outer)
          \/ Continue(Outer)
    \/ /\ HoldsTransaction
       /\ \/ \E c \in BOOLEAN : TransactionCall(Inner, c)
          \/ TransactionAcquire(Inner)
          \/ \E r \in PathOutcomes.call : TransactionCreate(Inner, r)
          \/ \E r \in PathOutcomes.call : Enter(Inner, r)
          \/ \E e \in PathOutcomes.scope : ScopedWork(Inner, e, FALSE)
          \/ \E r \in PathOutcomes.op : ExitTry(Inner, r)
          \/ \E r \in PathOutcomes.call : ExitClose(Inner, r)
          \/ ExitRelease(Inner)
          \/ Continue(Inner)

SpecNested == Init /\ [][NextNested]_vars

\* The steps of thread t that follow its transaction() call once it has the lock:
\* a thread that obtained a Transaction goes on until its with statement has ended.
Proceed(t) ==
    \/ \E r \in PathOutcomes.call : TransactionCreate(t, r)
    \/ \E r \in PathOutcomes.call : Enter(t, r)
    \/ \E e \in PathOutcomes.scope : ScopedWork(t, e, FALSE)
    \/ \E r \in PathOutcomes.op : ExitTry(t, r)
    \/ \E r \in PathOutcomes.call : ExitClose(t, r)
    \/ ExitRelease(t)
    \/ Continue(t)

\* Fair scheduling: every thread goes on running, and a thread waiting in
\* access_lock.acquire() gets the lock if the lock is free again and again.
SpecFair ==
    /\ Init
    /\ [][NextThreads]_vars
    /\ \A t \in Threads : WF_vars(Proceed(t)) /\ SF_vars(TransactionAcquire(t))


(***************************************************************************)
(* Claims.                                                                 *)
(***************************************************************************)

\* The Transactions between the return of transaction() and the end of __exit__
\* (a Transaction whose __enter__ raised never gets there).
OpenTransactions ==
    {t \in Threads : pc[t] \in {"created", "scope", "exit_try", "exit_finally",
                                "exit_release", "enter_raised"}}

\* The sessions that were constructed and are not closed.
LiveSessions == {t \in Threads : session[t] \in {"new", "begun"}}

\* C1: on a datastore with a serialization lock, at most one Transaction is open
\* at any time, and at most one session is constructed and not yet closed (no
\* second session is built or begun before the previous one was closed).
C1_AtMostOneOpenTransaction ==
    access_lock =>
        /\ Cardinality(OpenTransactions) <= 1
        /\ Cardinality(LiveSessions) <= 1

\* C1 witness: with a lock, one thread's Transaction has exited and released the
\* lock, and then another thread's Transaction is inside its scope.
C1_Witness ==
    /\ access_lock
    /\ \E t, u \in Threads :
          /\ t # u
          /\ pc[t] = "exit_done" /\ releases[t] = 1
          /\ pc[u] = "scope" /\ session[u] = "begun"

\* C2: for a Transaction that holds a lock, one __exit__ releases the lock exactly
\* once and clears the session reference, whatever rollback, commit and close did.
C2_ExitReleasesLockOnce ==
    \A t \in Threads :
        (pc[t] = "exit_done" /\ tx[t].lock) =>
            (releases[t] = 1 /\ tx[t].session = "None")

\* C3: when transaction() fails (session construction raised after the lock was
\* acquired), the lock is not held when the failure reaches the caller.
C3_NoLockHeldAfterTransactionFails ==
    \A t \in Threads : pc[t] = "transaction_raised" => ~locked

\* C4: when session.begin() raises in __enter__, the lock is free and the session
\* is disposed once the failure has reached the caller.
C4_LockFreeAfterEnterFails ==
    \A t \in Threads :
        pc[t] = "enter_raised" => (~locked /\ session[t] = "closed")

\* C5: with a lock, a Transaction whose scoped work raised a domain error raises
\* that very error to the caller, and the lock is free afterwards.
C5_DomainErrorPropagates ==
    \A t \in Threads :
        (access_lock /\ pc[t] = "exit_done" /\ exc_val[t] \in DomainErrors) =>
            (surfaced[t] = exc_val[t] /\ ~locked)

\* C6: when the scoped work raised a failure of any type and the rollback of
\* __exit__ succeeded, the caller gets that failure unchanged.
C6_ScopeFailureUnchanged ==
    \A t \in Threads :
        (/\ pc[t] = "exit_done"
         /\ exc_val[t] # None
         /\ op[t] = "rollback" /\ op_err[t] = None) =>
            surfaced[t] = exc_val[t]

\* C7: when the scoped work raised a failure and the rollback of __exit__ fails
\* with a database error, the caller still gets the scoped work's failure.
C7_RollbackFailureNeverMasks ==
    \A t \in Threads :
        (/\ pc[t] = "exit_done"
         /\ exc_val[t] # None
         /\ op[t] = "rollback" /\ op_err[t] \in NativeErrors) =>
            surfaced[t] = exc_val[t]

\* An operational failure: a raw sqlite3.OperationalError, or a SQLAlchemy
\* OperationalError that carries one.
IsOperationalFailure(e) ==
    \/ IsInstance(e, "sqlite3.OperationalError")
    \/ /\ IsInstance(e, "sqlalchemy.exc.OperationalError")
       /\ IsSubclass(e.arg0, "sqlite3.OperationalError")

\* C8: a failure of the rollback (commit=False) or commit (commit=True) of
\* __exit__ is suppressed only if it is an operational failure and the Transaction
\* holds a lock.
C8_SuppressedOnlyWithLock ==
    \A t \in Threads :
        (/\ pc[t] \in {"exit_finally", "exit_release", "exit_done"}
         /\ exc_val[t] = None
         /\ op_err[t] # None
         /\ pending[t] = None) =>
            (IsOperationalFailure(op_err[t]) /\ tx[t].lock)

\* The category named after the most specific class of a SQLAlchemy error.
CategoryOf(e) ==
    IF e.cls \in {"sqlalchemy.exc.InterfaceError", "sqlalchemy.exc.DataError",
                  "sqlalchemy.exc.OperationalError", "sqlalchemy.exc.IntegrityError",
                  "sqlalchemy.exc.InternalError", "sqlalchemy.exc.ProgrammingError",
                  "sqlalchemy.exc.NotSupportedError"}
    THEN CHOOSE k \in {"InterfaceError", "DataError", "OperationalError",
                       "IntegrityError", "InternalError", "ProgrammingError",
                       "NotSupportedError"} : e.cls = "sqlalchemy.exc." \o k
    ELSE IF IsInstance(e, "sqlalchemy.exc.DatabaseError") THEN "DatabaseError"
    ELSE "PersistenceError"

\* C9: a SQLAlchemy error raised by commit or rollback in __exit__ and not
\* suppressed reaches the caller as the category of its most specific class,
\* translated once (the category wraps the native error itself).
C9_CategoryReachesCaller ==
    \A t \in Threads :
        (/\ pc[t] = "exit_done"
         /\ op_err[t] \in SQLAlchemyErrors
         /\ pending[t] # None) =>
            (surfaced[t].cls = CategoryOf(op_err[t]) /\ surfaced[t].arg0 = op_err[t].cls)

\* C10: a native error raised by begin, commit or rollback never reaches the
\* caller raw, only as an error of the categories (PersistenceError and below).
C10_NativeErrorsAlwaysTranslated ==
    \A t \in Threads :
        /\ (pc[t] = "enter_raised" /\ surfaced[t] \in NativeErrors) =>
               IsInstance(surfaced[t], "PersistenceError")
        /\ (pc[t] = "exit_done" /\ op_err[t] \in NativeErrors /\ pending[t] = op_err[t]) =>
               IsInstance(surfaced[t], "PersistenceError")

(***************************************************************************)
(* Supporting properties: what does hold of __exit__ where the claims      *)
(* above fail through a failing rollback or close.  They hold under Spec.  *)
(***************************************************************************)

\* __exit__ ran its whole finally block (close() returned).
TeardownCompleted(t) == pc[t] = "exit_done" /\ tx[t].session = "None"

\* A domain error reaches the caller unchanged and the lock is free when the
\* session operation of __exit__ and close() both succeeded.
DomainErrorPropagatesIfTeardownSucceeds ==
    \A t \in Threads :
        (/\ TeardownCompleted(t)
         /\ exc_val[t] \in DomainErrors
         /\ op_err[t] = None) =>
            (surfaced[t] = exc_val[t] /\ ~locked)

\* The error leaving the try statement for a SQLAlchemy error of rollback or
\* commit is the category of that error's most specific class, wrapping it.
HandlerRaisesCategory ==
    \A t \in Threads :
        (/\ pc[t] \in {"exit_finally", "exit_release", "exit_done"}
         /\ op_err[t] \in SQLAlchemyErrors
         /\ pending[t] # None) =>
            (pending[t].cls = CategoryOf(op_err[t]) /\ pending[t].arg0 = op_err[t].cls)

\* A completed teardown released the lock once.
CompletedTeardownReleasesOnce ==
    \A t \in Threads :
        (TeardownCompleted(t) /\ tx[t].lock) => releases[t] = 1

(***************************************************************************)
(* Claims about durability (SpecWrites).                                   *)
(***************************************************************************)

\* The positions of a thread after its scoped work read the database.
AfterScope == {"exit_try", "exit_finally", "exit_release", "exit_done"}

\* C11: the rows written in a commit=True Transaction whose scoped work raised
\* nothing and whose with statement completed without an error are durable, and
\* the scoped work of a Transaction opened afterwards reads them.
C11_AcknowledgedWritesAreDurable ==
    /\ acked \subseteq db
    /\ \A t \in Threads :
           (pc[t] \in AfterScope /\ pc[t] # "exit_done") => acked \subseteq observed[t]

\* C12: a row written in a commit=False Transaction is never durable, and no
\* Transaction's scoped work reads it from the database, whatever rollback did.
C12_ReadOnlyWritesNeverDurable ==
    \A i \in DOMAIN writes :
        ~writes[i].commit =>
            /\ i \notin db
            /\ \A t \in Threads : i \notin observed[t]

\* C12 witness: a commit=False Transaction wrote a row and ended, and a later
\* Transaction, which wrote a row too, is past its scoped work's read of the database.
C12_Witness ==
    \E i \in DOMAIN writes :
        /\ ~writes[i].commit
        /\ \E t \in Threads :
              /\ pc[t] = "exit_try"
              /\ i \notin written[t]
              /\ written[t] # {}

\* C17: when the scoped work raised, __exit__ calls rollback and never commit,
\* whatever the commit flag, so the rows the failed scope wrote are not durable.
C17_FailedScopeRollsBack ==
    /\ \A t \in Threads :
           (pc[t] \in AfterScope /\ pc[t] # "exit_try" /\ exc_val[t] # None) =>
               op[t] = "rollback"
    /\ \A i \in DOMAIN writes : writes[i].raised => i \notin db

(***************************************************************************)
(* Construction of the datastore.                                          *)
(***************************************************************************)

\* C13: every successfully constructed datastore whose connection target is an
\* in-memory SQLite database, given by a url or reached through a supplied
\* session_cls, has is_sqlite_in_memory_db true and a non-null access_lock.
C13_InMemoryDatastoreIsSerialized ==
    (datastore.stage = "constructed" /\ IsInMemoryTarget(datastore.engine)) =>
        /\ datastore.is_sqlite_in_memory_db
        /\ datastore.access_lock # "None"
        /\ access_lock

\* The part of C13 the code keeps: a datastore constructed from a url naming an
\* in-memory SQLite database has the flag, a lock and a single shared connection.
InMemoryUrlIsSerialized ==
    (datastore.stage = "constructed" /\ GetOrNone(kwargs, "url") \in MemoryUrls) =>
        /\ datastore.is_sqlite_in_memory_db
        /\ datastore.access_lock = "Lock"
        /\ datastore.poolclass = "StaticPool"
        /\ ~datastore.check_same_thread

\* A configuration with neither a url nor a session_cls, absent or empty.
NeitherUrlNorSessionCls ==
    kwargs.url \in {Absent, ""} /\ kwargs.session_cls \in {Absent, "None"}

\* C14: the construction of a datastore from a configuration with neither a url nor
\* a session_cls, absent or empty, fails with a configuration error
\* (EnvironmentError), and no engine, session factory or lock is created.
C14_NeitherUrlNorSessionClsFails ==
    (datastore.stage # "new" /\ NeitherUrlNorSessionCls) =>
        /\ datastore.stage = "failed"
        /\ datastore.error = "EnvironmentError"
        /\ datastore.engine = "None"
        /\ datastore.session_cls = "None"
        /\ datastore.created = {}
        /\ datastore.access_lock = GetOrNone(kwargs, "access_lock")

\* C14 witness: the construction from an empty url and a None session_cls has failed.
C14_Witness ==
    /\ kwargs.url = "" /\ kwargs.session_cls = "None"
    /\ datastore.stage = "failed"

(***************************************************************************)
(* The registry of record classes.                                         *)
(***************************************************************************)

\* A define_record_class call of thread t has returned or raised.
Ended(t) == rpc[t] \in {"returned", "raised"}

\* C15: under sequential calls, a define_record_class call whose table name is
\* already registered with the same base class returns the class the first call for
\* that table name returned, whatever its name argument, and leaves record_classes
\* unchanged.
C15_DefineRecordClassIdempotent ==
    \A t \in Threads :
        (/\ Ended(t)
         /\ before[t][args[t].table_name] # NoEntry
         /\ before[t][args[t].table_name].base_cls = args[t].base_cls) =>
            /\ rpc[t] = "returned"
            /\ record_class[t] = before[t][args[t].table_name].record_class
            /\ record_class[t].id = first[args[t].table_name]
            /\ record_classes = before[t]

\* C15 witness: a call with a registered table name and base class, but another name
\* than the registered class has, has returned.
C15_Witness ==
    \E t \in Threads :
        /\ rpc[t] = "returned"
        /\ before[t][args[t].table_name] # NoEntry
        /\ before[t][args[t].table_name].base_cls = args[t].base_cls
        /\ before[t][args[t].table_name].record_class.name # args[t].name

\* C16: under sequential calls, a define_record_class call whose table name is
\* already registered with a different base class raises ValueError, returns no
\* class, and leaves the entry of that table name unchanged.
C16_DifferentBaseRaises ==
    \A t \in Threads :
        (/\ Ended(t)
         /\ before[t][args[t].table_name] # NoEntry
         /\ before[t][args[t].table_name].base_cls # args[t].base_cls) =>
            /\ rpc[t] = "raised"
            /\ raised[t] = "ValueError"
            /\ record_class[t] = NoClass
            /\ record_classes[args[t].table_name] = before[t][args[t].table_name]

\* C16 witness: a call with a table name registered with another base class has raised.
C16_Witness ==
    \E t \in Threads :
        /\ rpc[t] = "raised"
        /\ before[t][args[t].table_name] # NoEntry
        /\ before[t][args[t].table_name].base_cls # args[t].base_cls

\* C19: for every interleaving of define_record_class calls of several threads with
\* the same base class, the entry of a table name is never replaced or removed once
\* assigned, and every call returns the class first assigned to its table name.
C19_RegistryEntryNeverReplaced ==
    /\ \A n \in TableNames :
           first[n] # 0 => record_classes[n].record_class.id = first[n]
    /\ \A t \in Threads :
           Ended(t) => /\ rpc[t] = "returned"
                       /\ record_class[t].id = first[args[t].table_name]

\* Under sequential calls an entry is never replaced or removed.
SequentialEntryNeverReplaced ==
    \A n \in TableNames :
        /\ first[n] # 0 => record_classes[n].record_class.id = first[n]
        /\ first[n] = 0 => record_classes[n] = NoEntry

(***************************************************************************)
(* Progress of the threads waiting for the lock.                           *)
(***************************************************************************)

\* C18: on a datastore with a lock, under fair scheduling, every transaction() call
\* that waits for the lock eventually gets past access_lock.acquire(), whatever the
\* outcomes of session_cls(), begin, rollback, commit and close in the earlier
\* transactions.
C18_BlockedCallEventuallyReturns ==
    \A t \in Threads : (access_lock /\ pc[t] = "calling") ~> (pc[t] # "calling")

\* Without a lock no transaction() call waits.
CallReturnsWithoutLock ==
    \A t \in Threads : (~access_lock /\ pc[t] = "calling") ~> (pc[t] # "calling")

\* A thread waits for a lock that no open Transaction will release.
LockLeaked ==
    /\ access_lock /\ locked
    /\ \A t \in Threads : pc[t] \in {"idle", "calling", "transaction_raised", "enter_raised",
                                     "exit_done"}

\* The part of C18 the code keeps: a waiting call gets the lock unless the lock was
\* left held by a transaction() or __enter__ that raised, or by a close() that raised.
BlockedCallReturnsUnlessLockLeaked ==
    \A t \in Threads :
        (access_lock /\ pc[t] = "calling") ~> (pc[t] # "calling" \/ LockLeaked)

(***************************************************************************)
(* Nested transaction() calls of one thread.                               *)
(***************************************************************************)

\* C20: on a datastore with a lock, a transaction() call made by a thread that
\* holds a Transaction that has not exited never returns: it never gets past
\* access_lock.acquire(), and the thread never holds two Transactions.
C20_NestedCallNeverReturns ==
    access_lock =>
        /\ pc[Inner] \in {"idle", "calling"}
        /\ tx[Inner] = NoTransaction
        /\ (pc[Inner] = "calling" => locked /\ tx[Outer].lock)

\* C20 witness: inside the scoped work of its Transaction, on a datastore with a
\* lock, the thread has called transaction() again and waits for the lock.
C20_Witness ==
    /\ access_lock
    /\ pc[Outer] = "scope"
    /\ pc[Inner] = "calling"

\* Without a lock the nested call returns a second Transaction.
NestedCallReturnsWithoutLock ==
    /\ ~access_lock
    /\ pc[Outer] = "scope"
    /\ pc[Inner] = "scope"

====
